---- MODULE Spec2Model ----
(***************************************************************************)
(* Model of foremast/utils/gcp_environment.py: GcpResource, GcpEnvironment *)
(* and its two memoized project lookups.  Python objects are modelled as   *)
(* their attribute dictionaries (functions from attribute name to value),  *)
(* exceptions as the name of the raised class plus its message, and the    *)
(* strings the code formats are built with the same concatenations.        *)
(*                                                                         *)
(* A dict that the code changes in place is an object with an identity:    *)
(* the attribute _single_project_cache holds a reference into 'heap', so   *)
(* that two holders of one dict see each other's writes.  The list in      *)
(* _all_projects_cache is only ever replaced, never changed in place, and  *)
(* is held by value.  An environment object is identified by the call of   *)
(* get_environments_from_config that made it and its name.                 *)
(***************************************************************************)
EXTENDS Integers, Sequences, FiniteSets, TLC

VARIABLES
    GCP_ENVS,   \* foremast.consts.GCP_ENVS: env name -> keyword overrides (an
                \* override of _single_project_cache is a reference into heap)
    heap,       \* dict object -> its content now (key -> project)
    builds,     \* number of get_environments_from_config calls made
    registry,   \* outcome of the latest one: "unbuilt" | "built" | "TypeError"
    gcp_envs,   \* environment object -> GcpEnvironment attribute dictionary
    last,       \* observation of the most recent completed call
    calls,      \* number of get_all_projects / get_project calls made
    listed,     \* environment -> number of get_all_projects calls made on it
    prevList,   \* environment -> summary of its latest get_all_projects call
    asked,      \* environment -> prefixes get_project has been called with
    prevGet,    \* environment -> prefix -> summary of the latest get_project
    resource,   \* the GcpResource under validation (SpecResource)
    threads,    \* caller -> position and locals of its call (SpecRace)
    filtered    \* one _get_project_api_filter call (SpecFilter)

vars == <<GCP_ENVS, heap, builds, registry, gcp_envs, last, calls, listed,
          prevList, asked, prevGet, resource, threads, filtered>>

envVars == <<GCP_ENVS, heap, builds, registry, gcp_envs, last, calls, listed,
             prevList, asked, prevGet>>

\* the variables the operations of GcpEnvironment in Spec leave alone
otherVars == <<resource, threads, filtered>>

----------------------------------------------------------------------------
(* Bounds *)

\* total number of calls explored in one behaviour: those of
\* get_environments_from_config, get_all_projects and get_project together
MaxCalls == 4

\* longest project list the remote service answers with
MaxResp == 2

\* number of callers racing on one environment
MaxCallers == 2

\* number of get_environments_from_config calls explored in one behaviour
MaxBuilds == 2

----------------------------------------------------------------------------
(* Values *)

\* Python's None object
None == "None"

\* marker of "no such call yet" in the observation variables
NoCall == [op |-> "none"]

EnvNames == {"prod", "dev"}

\* the environment objects: <<g, name>> is the GcpEnvironment that the g-th
\* call of get_environments_from_config made for the key 'name'
EnvIds == (1..MaxBuilds) \X EnvNames

\* the dict objects: the dict() that the __init__ of environment <<g, name>>
\* makes is <<g, name>>; a dict written in the configuration is <<0, label>>
PresetDict == <<0, "preset">>

SharedDict == <<0, "shared">>

ProjectNames == {"proj-a-1", "proj-b-1"}

Prefixes == {"proj-a", "proj-b"}

\* a project record of the remote service (only 'name' is read locally)
Project(n) == [name |-> n]

Projects == {Project(n) : n \in ProjectNames}

\* duplicate-free project lists of length 0..MaxResp, in any order
ProjectLists ==
    {s \in UNION {[1..n -> Projects] : n \in 0..MaxResp} :
        \A i, j \in 1..Len(s) : i # j => s[i] # s[j]}

\* the body of a projects().list() answer: a dict that may lack 'projects'
EmptyDict == [k \in {} |-> None]

Responses == {EmptyDict} \cup {[projects |-> s] : s \in ProjectLists}

\* service account key files that exist and parse
KeyFiles == {"/keys/sa.json"}

Contains(s, sub) ==
    \E i \in 1..(Len(s) - Len(sub) + 1) : SubSeq(s, i, i + Len(sub) - 1) = sub

----------------------------------------------------------------------------
(* GcpResource *)

\* GcpResource.__init__(**entries)
GcpResource_init(entries) == entries @@ [project |-> None]

\* the outcome of a method call: the object after it, the class raised (or
\* None), the message of the exception and the value returned
Outcome(self, raised, message, value) ==
    [self |-> self, raised |-> raised, message |-> message, value |-> value]

validate_truthy(self) ==
    IF self.project = None \/ self.project = ""
    THEN Outcome(self, "KeyError",
                 "A project must be specified when creating or referencing a GCP Resource",
                 None)
    ELSE Outcome(self, None, "", None)

\* GcpResource.validate()
validate(self) ==
    IF self.project = None
    THEN Outcome(self, "KeyError",
                 "A project must be specified when creating or referencing a GCP Resource",
                 None)
    ELSE Outcome(self, None, "", None)

----------------------------------------------------------------------------
(* GcpEnvironment: pure parts *)

\* GcpEnvironment.__init__(name, **entries) of the environment object 'env':
\* line 43 makes a new dict, the object 'env' of the heap, and line 46 lets
\* the overrides replace any attribute, the reference to that dict included
GcpEnvironment_init(env, name, entries) ==
    entries @@ [name |-> name,
                organization |-> None,
                _all_projects_cache |-> <<>>,
                _single_project_cache |-> env,
                service_account_project |-> None,
                service_account_path |-> None]

\* GcpEnvironment(name=env_name, **env_config) binds a parameter of
\* __init__(self, name, **entries) twice when the overrides carry a 'self' or
\* a 'name' key: Python raises TypeError at the call
init_raises(entries) == DOMAIN entries \cap {"self", "name"} # {}

\* the content now of the dict that self._single_project_cache refers to
single_project_cache(self) == heap[self._single_project_cache]

get_credentials_unchecked(self) ==
    [raised |-> None, value |-> self.service_account_path]

\* GcpEnvironment.get_credentials(): the key file at service_account_path is
\* read on every call; the call returns credentials when the file is a key
\* file and otherwise propagates what from_service_account_file raises,
\* written CredentialsFileError here (an unset path, None, is no key file)
get_credentials(self) ==
    IF self.service_account_path \in KeyFiles
    THEN [raised |-> None, value |-> self.service_account_path]
    ELSE [raised |-> "CredentialsFileError", value |-> None]

_get_project_api_filter_truthy(self, name) ==
    LET base_filter == "labels.cloud_env:" \o self.name
    IN IF name # None /\ name # "" THEN base_filter \o " name:" \o name \o "*"
       ELSE base_filter

\* GcpEnvironment._get_project_api_filter(name=None)
_get_project_api_filter(self, name) ==
    LET base_filter == "labels.cloud_env:" \o self.name
    IN IF name # None THEN base_filter \o " name:" \o name \o "*"
       ELSE base_filter

\* response.get('projects', [])
response_projects(response) ==
    IF "projects" \in DOMAIN response THEN response.projects ELSE <<>>

all_projects_cached_many(self) == Len(self._all_projects_cache) > 1

\* get_all_projects: the cache test
all_projects_cached(self) == Len(self._all_projects_cache) > 0

all_projects_empty_never(projects) == FALSE

\* get_all_projects: if len(projects) == 0
all_projects_empty(projects) == Len(projects) = 0

\* get_all_projects: the class raised for a zero-result answer
no_projects_in_env_error == "GoogleInfrastructureError"

\* get_all_projects: the message of the zero-result error
no_projects_in_env_message(project_filter) ==
    "No projects returned for filter " \o project_filter \o ". "
        \o "A Foremast GCP Environment needs at least one project."

Reverse(s) == [i \in 1..Len(s) |-> s[Len(s) + 1 - i]]

store_all_projects_reordered(self, projects) ==
    [self EXCEPT !._all_projects_cache = Reverse(projects)]

store_all_projects_first(self, projects) ==
    [self EXCEPT !._all_projects_cache = <<projects[1]>>]

store_all_projects_extend(self, projects) ==
    [self EXCEPT !._all_projects_cache = @ \o projects]

\* get_all_projects: self._all_projects_cache = projects
store_all_projects(self, projects) ==
    [self EXCEPT !._all_projects_cache = projects]

project_cached_by_name(self, project_prefix) ==
    \E k \in DOMAIN single_project_cache(self) :
        single_project_cache(self)[k].name = project_prefix

\* get_project: the cache test
project_cached(self, project_prefix) ==
    project_prefix \in DOMAIN single_project_cache(self)

\* get_project: if len(projects) == 0
no_projects_found(projects) == Len(projects) = 0

more_than_one_project_lenient(projects) == Len(projects) > 2

\* get_project: if len(projects) > 1
more_than_one_project(projects) == Len(projects) > 1

\* get_project: the class raised for a zero-result answer
no_projects_error == "GoogleInfrastructureError"

\* get_project: the class raised for an answer of more than one project
ambiguous_error == "GoogleInfrastructureError"

no_projects_message_bare(project_filter) == "No projects returned"

\* get_project: the message of the zero-result error
no_projects_message(project_filter) ==
    "No projects returned for filter " \o project_filter


\* get_project: the message of the more-than-one-result error
RECURSIVE project_names(_)
project_names(projects) ==
    IF projects = <<>> THEN ""
    ELSE " " \o Head(projects).name \o project_names(Tail(projects))

ambiguous_message(project_filter, projects) ==
    "More than one project returned for filter " \o project_filter
        \o ". Projects returned:" \o project_names(projects)

store_project_by_name(self, project_prefix, project_filter, projects) ==
    [heap EXCEPT ![self._single_project_cache] =
        (projects[1].name :> projects[1]) @@ @]

store_project_alone(self, project_prefix, project_filter, projects) ==
    [heap EXCEPT ![self._single_project_cache] = project_prefix :> projects[1]]

\* get_project: self._single_project_cache[project_prefix] = projects[0]
\* changes the dict the attribute refers to, in place: the heap after it
store_project(self, project_prefix, project_filter, projects) ==
    [heap EXCEPT ![self._single_project_cache] =
        (project_prefix :> projects[1]) @@ @]

\* get_all_projects, line 75: the assignment rebinds an attribute of the
\* instance the method was called on, and of no other
instance_update(envs, env, self) == [envs EXCEPT ![env] = self]

----------------------------------------------------------------------------
(* Configuration *)

KeyFileEntries == [service_account_path |-> "/keys/sa.json"]

MissingFileEntries ==
    [service_account_path |-> "/keys/missing.json", organization |-> "acme"]

\* overrides that preset both caches; the dict is the object PresetDict
PresetEntries ==
    [service_account_path |-> "/keys/sa.json",
     _all_projects_cache |-> <<Project("proj-b-1")>>,
     _single_project_cache |-> PresetDict]

\* overrides that preset _single_project_cache with the object SharedDict
SharedEntries ==
    [service_account_path |-> "/keys/sa.json",
     _single_project_cache |-> SharedDict]

NameEntries == [service_account_path |-> "/keys/sa.json", name |-> "stage"]

SelfEntries == [service_account_path |-> "/keys/sa.json", self |-> "x"]

\* the configurations explored as the value of GCP_ENVS
Configs ==
    { EmptyDict,
      [prod |-> KeyFileEntries, dev |-> KeyFileEntries],
      [prod |-> KeyFileEntries, dev |-> EmptyDict],
      [prod |-> MissingFileEntries],
      [prod |-> PresetEntries],
      [prod |-> SharedEntries, dev |-> SharedEntries],
      [prod |-> KeyFileEntries, dev |-> NameEntries],
      [prod |-> SelfEntries] }

\* the dicts written in the configuration, as they are when it is loaded
ConfigDicts ==
    (PresetDict :> ("proj-b" :> Project("proj-b-1"))) @@ (SharedDict :> EmptyDict)

\* the dict objects that the configuration 'config' refers to
config_dicts(config) ==
    {config[n]._single_project_cache :
        n \in {m \in DOMAIN config : "_single_project_cache" \in DOMAIN config[m]}}

\* GCP_ENVS as the program reads it now: each reference replaced by the
\* content of the dict it refers to
config_value(config) ==
    [n \in DOMAIN config |->
        [k \in DOMAIN config[n] |->
            IF k = "_single_project_cache" THEN heap[config[n][k]]
            ELSE config[n][k]]]

----------------------------------------------------------------------------
(* Observations *)

\* what a caller and the remote service see of one completed call
\* (queries: the filters sent to the remote service; answer: the project
\* list it sent back, None when it was not asked)
Observation(op, env, prefix, hit, creds, queries, answer, raised, message, value) ==
    [op |-> op, env |-> env, prefix |-> prefix, hit |-> hit, creds |-> creds,
     queries |-> queries, answer |-> answer, raised |-> raised,
     message |-> message, value |-> value]

\* history kept for the properties, not program state: what they need to
\* remember of an earlier call
Summary(obs) ==
    [op |-> obs.op, queried |-> obs.queries # <<>>, raised |-> obs.raised,
     value |-> obs.value]

Record(obs) ==
    /\ last' = obs
    /\ calls' = calls + 1
    /\ listed' = IF obs.op = "get_all_projects"
                 THEN [listed EXCEPT ![obs.env] = @ + 1] ELSE listed
    /\ prevList' = IF obs.op = "get_all_projects"
                   THEN [prevList EXCEPT ![obs.env] = Summary(obs)]
                   ELSE prevList
    /\ asked' = IF obs.op = "get_project"
                THEN [asked EXCEPT ![obs.env] = @ \cup {obs.prefix}] ELSE asked
    /\ prevGet' = IF obs.op = "get_project"
                  THEN [prevGet EXCEPT ![obs.env][obs.prefix] = Summary(obs)]
                  ELSE prevGet

----------------------------------------------------------------------------
(* Operations *)

Init ==
    /\ GCP_ENVS \in Configs
    /\ heap = [d \in config_dicts(GCP_ENVS) |-> ConfigDicts[d]]
    /\ builds = 0
    /\ registry = "unbuilt"
    /\ gcp_envs = EmptyDict
    /\ last = NoCall
    /\ calls = 0
    /\ listed = [e \in EnvIds |-> 0]
    /\ prevList = [e \in EnvIds |-> NoCall]
    /\ asked = [e \in EnvIds |-> {}]
    /\ prevGet = [e \in EnvIds |-> [p \in Prefixes |-> NoCall]]
    /\ resource = NoCall
    /\ threads = EmptyDict
    /\ filtered = NoCall

\* the environment objects that one pass of the loop of
\* get_environments_from_config (lines 125-127) makes, the pass being the
\* g-th call of it
new_environments(g) ==
    [env \in {g} \X DOMAIN GCP_ENVS |->
        GcpEnvironment_init(env, env[2], GCP_ENVS[env[2]])]

\* the dicts of line 43 that the new environments keep: the dict of an
\* environment whose overrides replace _single_project_cache is dropped
new_dicts(g) ==
    [env \in {e \in DOMAIN new_environments(g) :
                 new_environments(g)[e]._single_project_cache = e} |-> EmptyDict]

\* GcpEnvironment.get_environments_from_config(): every call makes new
\* environment objects; the objects of earlier calls stay with their callers
get_environments_from_config ==
    /\ builds < MaxBuilds
    /\ builds + calls < MaxCalls
    /\ builds' = builds + 1
    /\ IF \E env_name \in DOMAIN GCP_ENVS : init_raises(GCP_ENVS[env_name])
       THEN /\ registry' = "TypeError"
            /\ gcp_envs' = gcp_envs
            /\ heap' = heap
       ELSE /\ registry' = "built"
            /\ gcp_envs' = new_environments(builds + 1) @@ gcp_envs
            /\ heap' = new_dicts(builds + 1) @@ heap
    /\ UNCHANGED <<GCP_ENVS, last, calls, listed, prevList, asked, prevGet,
                   otherVars>>

\* GcpEnvironment.get_all_projects() on gcp_envs[env], the remote service
\* answering 'response' when it is asked
get_all_projects(env, response) ==
    LET self == gcp_envs[env]
        credentials == get_credentials(self)
        project_filter == _get_project_api_filter(self, None)
        projects == response_projects(response)
    IN IF all_projects_cached(self)
       THEN /\ Record(Observation("get_all_projects", env, None, TRUE, 0,
                                  <<>>, None, None, "",
                                  self._all_projects_cache))
            /\ gcp_envs' = gcp_envs
            /\ heap' = heap
       ELSE IF credentials.raised # None
       THEN /\ Record(Observation("get_all_projects", env, None, FALSE, 1,
                                  <<>>, None, credentials.raised, "", None))
            /\ gcp_envs' = gcp_envs
            /\ heap' = heap
       ELSE IF all_projects_empty(projects)
       THEN /\ Record(Observation("get_all_projects", env, None, FALSE, 1,
                                  <<project_filter>>, projects,
                                  no_projects_in_env_error,
                                  no_projects_in_env_message(project_filter),
                                  None))
            /\ gcp_envs' = gcp_envs
            /\ heap' = heap
       ELSE /\ Record(Observation("get_all_projects", env, None, FALSE, 1,
                                  <<project_filter>>, projects, None, "",
                                  projects))
            /\ gcp_envs' = instance_update(gcp_envs, env,
                              store_all_projects(self, projects))
            /\ heap' = heap

\* GcpEnvironment.get_project(project_prefix) on gcp_envs[env]
get_project(env, project_prefix, response) ==
    LET self == gcp_envs[env]
        credentials == get_credentials(self)
        project_filter == _get_project_api_filter(self, project_prefix)
        projects == response_projects(response)
    IN IF project_cached(self, project_prefix)
       THEN /\ Record(Observation("get_project", env, project_prefix, TRUE, 0,
                                  <<>>, None, None, "",
                                  single_project_cache(self)[project_prefix]))
            /\ gcp_envs' = gcp_envs
            /\ heap' = heap
       ELSE IF credentials.raised # None
       THEN /\ Record(Observation("get_project", env, project_prefix, FALSE, 1,
                                  <<>>, None, credentials.raised, "", None))
            /\ gcp_envs' = gcp_envs
            /\ heap' = heap
       ELSE IF no_projects_found(projects)
       THEN /\ Record(Observation("get_project", env, project_prefix, FALSE, 1,
                                  <<project_filter>>, projects,
                                  no_projects_error,
                                  no_projects_message(project_filter), None))
            /\ gcp_envs' = gcp_envs
            /\ heap' = heap
       ELSE IF more_than_one_project(projects)
       THEN /\ Record(Observation("get_project", env, project_prefix, FALSE, 1,
                                  <<project_filter>>, projects,
                                  ambiguous_error,
                                  ambiguous_message(project_filter, projects),
                                  None))
            /\ gcp_envs' = gcp_envs
            /\ heap' = heap
       ELSE /\ Record(Observation("get_project", env, project_prefix, FALSE, 1,
                                  <<project_filter>>, projects, None, "",
                                  projects[1]))
            /\ gcp_envs' = gcp_envs
            /\ heap' = store_project(self, project_prefix, project_filter,
                                     projects)

ListProjects ==
    /\ builds + calls < MaxCalls
    /\ \E env \in DOMAIN gcp_envs : \E response \in Responses :
          get_all_projects(env, response)
    /\ UNCHANGED <<GCP_ENVS, builds, registry, otherVars>>

ResolveProject ==
    /\ builds + calls < MaxCalls
    /\ \E env \in DOMAIN gcp_envs : \E project_prefix \in Prefixes :
          \E response \in Responses :
             get_project(env, project_prefix, response)
    /\ UNCHANGED <<GCP_ENVS, builds, registry, otherVars>>

Next ==
    \/ get_environments_from_config
    \/ ListProjects
    \/ ResolveProject

Spec == Init /\ [][Next]_vars

----------------------------------------------------------------------------
(* GcpResource on its own *)

\* values given to the 'project' keyword (None and the empty string included)
ProjectValues == {None, "", "my-project", "0"}

\* keyword arguments of GcpResource(**entries): each key present or absent
ResourceEntries ==
    {f \in UNION {[K -> ProjectValues \cup {"bucket", "topic", "us", "eu", "asia"}] :
                     K \in SUBSET {"project", "name", "region"}} :
        /\ "project" \in DOMAIN f => f.project \in ProjectValues
        /\ "name" \in DOMAIN f => f.name \in {"bucket", "topic"}
        /\ "region" \in DOMAIN f => f.region \in {"us", "eu", "asia"}}

InitResource ==
    /\ GCP_ENVS = EmptyDict
    /\ heap = EmptyDict
    /\ builds = 0
    /\ registry = "unbuilt"
    /\ gcp_envs = EmptyDict
    /\ last = NoCall
    /\ calls = 0
    /\ listed = [e \in EnvIds |-> 0]
    /\ prevList = [e \in EnvIds |-> NoCall]
    /\ asked = [e \in EnvIds |-> {}]
    /\ prevGet = [e \in EnvIds |-> [p \in Prefixes |-> NoCall]]
    /\ resource = NoCall
    /\ threads = EmptyDict
    /\ filtered = NoCall

\* resource = GcpResource(**entries)
NewResource ==
    /\ \E entries \in ResourceEntries :
          resource' = [op |-> "__init__", entries |-> entries,
                       self |-> GcpResource_init(entries)]
    /\ UNCHANGED <<envVars, threads, filtered>>

\* resource.validate()
ValidateResource ==
    /\ resource.op # "none"
    /\ LET outcome == validate(resource.self)
       IN resource' = [op |-> "validate", entries |-> resource.entries,
                       self |-> outcome.self, raised |-> outcome.raised,
                       message |-> outcome.message, value |-> outcome.value]
    /\ UNCHANGED <<envVars, threads, filtered>>

NextResource ==
    \/ NewResource
    \/ ValidateResource

SpecResource == InitResource /\ [][NextResource]_vars

----------------------------------------------------------------------------
(* Callers racing on one environment.  The code takes no lock: a call is   *)
(* the sequence of its reads and writes of the shared caches, and calls of *)
(* different callers interleave between them.  Loading the credentials,    *)
(* asking the remote service and testing the answer touch only locals and  *)
(* are one step.                                                           *)

Callers == 1..MaxCallers

\* the environment the callers share
RaceEnv == <<1, "prod">>

Idle == [pc |-> "idle"]

\* position and locals of a call in progress or completed
Frame(pc, op, prefix, creds, queries, projects, raised, value) ==
    [pc |-> pc, op |-> op, prefix |-> prefix, creds |-> creds,
     queries |-> queries, projects |-> projects, raised |-> raised,
     value |-> value]

InitRace ==
    /\ GCP_ENVS = [prod |-> KeyFileEntries]
    /\ heap = new_dicts(1)
    /\ builds = 1
    /\ registry = "built"
    /\ gcp_envs = new_environments(1)
    /\ last = NoCall
    /\ calls = 0
    /\ listed = [e \in EnvIds |-> 0]
    /\ prevList = [e \in EnvIds |-> NoCall]
    /\ asked = [e \in EnvIds |-> {}]
    /\ prevGet = [e \in EnvIds |-> [p \in Prefixes |-> NoCall]]
    /\ resource = NoCall
    /\ threads = [t \in Callers |-> Idle]
    /\ filtered = NoCall

raceFrame == <<GCP_ENVS, builds, registry, last, calls, listed, prevList,
               asked, prevGet, resource, filtered>>

\* caller t enters get_all_projects() (prefix None) or get_project(prefix)
Enter(t) ==
    /\ threads[t].pc = "idle"
    /\ \E prefix \in Prefixes \cup {None} :
          threads' = [threads EXCEPT ![t] =
              Frame("check",
                    IF prefix = None THEN "get_all_projects" ELSE "get_project",
                    prefix, 0, 0, <<>>, None, None)]
    /\ UNCHANGED <<gcp_envs, heap, raceFrame>>

\* lines 60 and 85: the cache test
CheckCache(t) ==
    /\ threads[t].pc = "check"
    /\ LET self == gcp_envs[RaceEnv]
           cached == IF threads[t].op = "get_all_projects"
                     THEN all_projects_cached(self)
                     ELSE project_cached(self, threads[t].prefix)
       IN threads' = [threads EXCEPT ![t].pc =
                         IF cached THEN "hit" ELSE "fetch"]
    /\ UNCHANGED <<gcp_envs, heap, raceFrame>>

\* lines 62 and 87: return what the cache holds now
ReturnCached(t) ==
    /\ threads[t].pc = "hit"
    /\ LET self == gcp_envs[RaceEnv]
       IN threads' = [threads EXCEPT
              ![t].pc = "done",
              ![t].value = IF threads[t].op = "get_all_projects"
                           THEN self._all_projects_cache
                           ELSE single_project_cache(self)[threads[t].prefix]]
    /\ UNCHANGED <<gcp_envs, heap, raceFrame>>

\* lines 65-73 and 90-107: credentials, the remote query, the tests of the
\* answer
Fetch(t) ==
    /\ threads[t].pc = "fetch"
    /\ \E response \in Responses :
          LET self == gcp_envs[RaceEnv]
              me == threads[t]
              credentials == get_credentials(self)
              projects == response_projects(response)
              failed ==
                  IF me.op = "get_all_projects"
                  THEN IF all_projects_empty(projects)
                       THEN no_projects_in_env_error ELSE None
                  ELSE IF no_projects_found(projects) THEN no_projects_error
                       ELSE IF more_than_one_project(projects)
                            THEN ambiguous_error ELSE None
          IN threads' = [threads EXCEPT ![t] =
                 IF credentials.raised # None
                 THEN Frame("done", me.op, me.prefix, 1, 0, <<>>,
                            credentials.raised, None)
                 ELSE IF failed # None
                 THEN Frame("done", me.op, me.prefix, 1, 1, projects, failed,
                            None)
                 ELSE Frame("store", me.op, me.prefix, 1, 1, projects, None,
                            None)]
    /\ UNCHANGED <<gcp_envs, heap, raceFrame>>

\* lines 75-77 and 110-111: write the cache and return the answer
Store(t) ==
    /\ threads[t].pc = "store"
    /\ LET self == gcp_envs[RaceEnv]
           me == threads[t]
       IN IF me.op = "get_all_projects"
          THEN /\ gcp_envs' = instance_update(gcp_envs, RaceEnv,
                                  store_all_projects(self, me.projects))
               /\ heap' = heap
               /\ threads' = [threads EXCEPT ![t].pc = "done",
                                             ![t].value = me.projects]
          ELSE /\ gcp_envs' = gcp_envs
               /\ heap' = store_project(self, me.prefix,
                              _get_project_api_filter(self, me.prefix),
                              me.projects)
               /\ threads' = [threads EXCEPT ![t].pc = "done",
                                             ![t].value = me.projects[1]]
    /\ UNCHANGED raceFrame

NextRace ==
    \E t \in Callers :
        \/ Enter(t)
        \/ CheckCache(t)
        \/ ReturnCached(t)
        \/ Fetch(t)
        \/ Store(t)

SpecRace == InitRace /\ [][NextRace]_vars

----------------------------------------------------------------------------
(* The filter of the two lookups, on its own *)

\* environment names and prefixes the filter is built from
FilterNames == {"", "prod", "dev", "stage", "qa-1", "a b"}

FilterPrefixes == {"", "p", "proj-a", "proj-b", "proj-a-1", "x*", "my project"}

InitFilter ==
    /\ GCP_ENVS = EmptyDict
    /\ heap = EmptyDict
    /\ builds = 0
    /\ registry = "unbuilt"
    /\ gcp_envs = EmptyDict
    /\ last = NoCall
    /\ calls = 0
    /\ listed = [e \in EnvIds |-> 0]
    /\ prevList = [e \in EnvIds |-> NoCall]
    /\ asked = [e \in EnvIds |-> {}]
    /\ prevGet = [e \in EnvIds |-> [p \in Prefixes |-> NoCall]]
    /\ resource = NoCall
    /\ threads = EmptyDict
    /\ \E name \in FilterNames : \E project_prefix \in FilterPrefixes :
          filtered = [op |-> "args", name |-> name, prefix |-> project_prefix]

\* get_all_projects, line 66: project_filter = self._get_project_api_filter()
ListFilter ==
    /\ filtered.op = "args"
    /\ LET self == GcpEnvironment_init(<<1, filtered.name>>, filtered.name, EmptyDict)
       IN filtered' = [op |-> "get_all_projects", name |-> filtered.name,
                       prefix |-> filtered.prefix,
                       value |-> _get_project_api_filter(self, None)]
    /\ UNCHANGED <<envVars, resource, threads>>

\* get_project, line 91:
\* project_filter = self._get_project_api_filter(name=project_prefix)
GetFilter ==
    /\ filtered.op = "args"
    /\ LET self == GcpEnvironment_init(<<1, filtered.name>>, filtered.name, EmptyDict)
       IN filtered' = [op |-> "get_project", name |-> filtered.name,
                       prefix |-> filtered.prefix,
                       value |-> _get_project_api_filter(self, filtered.prefix)]
    /\ UNCHANGED <<envVars, resource, threads>>

NextFilter ==
    \/ ListFilter
    \/ GetFilter

SpecFilter == InitFilter /\ [][NextFilter]_vars

----------------------------------------------------------------------------
(* Properties *)

\* the step is a completed get_all_projects() on environment e
ListCall(e) ==
    calls' = calls + 1 /\ last'.op = "get_all_projects" /\ last'.env = e

\* the step is a completed get_project(p) on environment e
GetCall(e, p) ==
    /\ calls' = calls + 1
    /\ last'.op = "get_project" /\ last'.env = e /\ last'.prefix = p

\* environment e was constructed with the caches __init__ sets
DefaultCaches(e) ==
    /\ "_all_projects_cache" \notin DOMAIN GCP_ENVS[e[2]]
    /\ "_single_project_cache" \notin DOMAIN GCP_ENVS[e[2]]

\* the content of the single-project cache of environment e
SingleCache(e) == single_project_cache(gcp_envs[e])

\* the content of the all-projects cache of environment e
AllCache(e) == gcp_envs[e]._all_projects_cache

\* the key file of environment e loads
CredentialsLoad(e) == get_credentials(gcp_envs[e]).raised = None

\* C1 as stated, read on the environments most favourable to it (built with
\* empty caches, key file loadable, no get_project call so far): the first
\* get_all_projects() sends exactly one remote query, and the second one
\* sends none and returns the sequence the first one returned.
C1_Original ==
    [][\A e \in EnvIds :
        (ListCall(e) /\ asked[e] = {} /\ DefaultCaches(e)
            /\ CredentialsLoad(e)) =>
            /\ listed[e] = 0 => Len(last'.queries) = 1
            /\ listed[e] = 1 =>
                  /\ last'.queries = <<>>
                  /\ last'.raised = None
                  /\ prevList[e].raised = None
                  /\ last'.value = prevList[e].value]_vars

\* C1 amended: the first get_all_projects() on an environment built with
\* empty caches and a loadable key file sends exactly one remote query;
\* when the first call returned (the answer was not empty) the second call
\* sends no query and returns the same sequence, in the order the remote
\* service answered.
C1_CacheIdempotence ==
    [][\A e \in EnvIds :
        ListCall(e) =>
            /\ (listed[e] = 0 /\ DefaultCaches(e) /\ CredentialsLoad(e))
                  => Len(last'.queries) = 1
            /\ (last'.queries # <<>> /\ last'.raised = None)
                  => last'.value = last'.answer
            /\ (listed[e] = 1 /\ prevList[e].raised = None)
                  => /\ last'.queries = <<>>
                     /\ last'.raised = None
                     /\ last'.value = prevList[e].value]_vars

\* a second get_all_projects() has been answered from the cache that the
\* first one filled with a two-project answer not in name order
C1_Witness ==
    \E e \in DOMAIN gcp_envs :
        /\ DefaultCaches(e)
        /\ listed[e] = 2
        /\ last.op = "get_all_projects" /\ last.env = e /\ last.hit
        /\ last.value = <<Project("proj-b-1"), Project("proj-a-1")>>

\* C2 as stated, read on the environments most favourable to it (built with
\* empty caches, key file loadable): get_project(P) for a prefix never asked
\* before sends exactly one remote query, and every repetition with the
\* same P sends none.
C2_Original ==
    [][\A e \in EnvIds : \A p \in Prefixes :
        (GetCall(e, p) /\ DefaultCaches(e) /\ CredentialsLoad(e)) =>
            /\ p \notin asked[e] => Len(last'.queries) = 1
            /\ p \in asked[e] => last'.queries = <<>>]_vars

\* C2 amended: get_project(P) for a prefix never asked before, on an
\* environment built with empty caches and a loadable key file, sends
\* exactly one remote query; once a get_project(P) has returned a project,
\* repeating it with the same P sends no query.
C2_PrefixQueriedOnce ==
    [][\A e \in EnvIds : \A p \in Prefixes :
        GetCall(e, p) =>
            /\ (p \notin asked[e] /\ DefaultCaches(e) /\ CredentialsLoad(e))
                  => Len(last'.queries) = 1
            /\ (p \in asked[e] /\ prevGet[e][p].raised = None)
                  => /\ last'.queries = <<>>
                     /\ last'.raised = None]_vars

\* get_project has been repeated with a prefix it resolved before and was
\* answered from the cache
C2_Witness ==
    \E e \in DOMAIN gcp_envs :
        /\ DefaultCaches(e)
        /\ last.op = "get_project" /\ last.env = e /\ last.hit
        /\ last.prefix \in asked[e]
        /\ calls >= 2

\* C3: when the remote service answers get_all_projects() with zero
\* projects the call raises the zero-result error and the cache stays empty,
\* and the get_all_projects() after such a failure sends a new remote query.
C3_EmptyAnswerNotCached ==
    [][\A e \in EnvIds :
        ListCall(e) =>
            /\ (last'.queries # <<>> /\ last'.answer = <<>>)
                  => /\ last'.raised = "GoogleInfrastructureError"
                     /\ gcp_envs[e]._all_projects_cache = <<>>
                     /\ AllCache(e)' = <<>>
            /\ (listed[e] >= 1 /\ prevList[e].queried
                   /\ prevList[e].raised = "GoogleInfrastructureError")
                  => /\ ~last'.hit
                     /\ Len(last'.queries) = 1]_vars

\* a get_all_projects() that follows one answered with zero projects has
\* itself asked the remote service
C3_Witness ==
    \E e \in DOMAIN gcp_envs :
        /\ listed[e] = 2
        /\ last.op = "get_all_projects" /\ last.env = e
        /\ Len(last.queries) = 1
        /\ gcp_envs[e]._all_projects_cache = <<>>

\* the step is a get_project(p) on e that the remote service answered
GetAnswered(e, p) == GetCall(e, p) /\ last'.queries # <<>>

\* C4: an answer of two or more projects makes get_project raise an error
\* of a kind other than the zero-result kind, whose message contains the
\* name of every project of the answer.
C4_AmbiguousProjectError ==
    [][\A e \in EnvIds : \A p \in Prefixes :
        (GetAnswered(e, p) /\ Len(last'.answer) >= 2) =>
            /\ last'.raised # None
            /\ last'.raised # no_projects_error
            /\ \A i \in 1..Len(last'.answer) :
                  Contains(last'.message, last'.answer[i].name)]_vars

\* C5: an answer of zero projects makes get_project raise the zero-result
\* error, whose message carries the filter string sent with the query.
C5_NoProjectFound ==
    [][\A e \in EnvIds : \A p \in Prefixes :
        (GetAnswered(e, p) /\ last'.answer = <<>>) =>
            /\ last'.raised = "GoogleInfrastructureError"
            /\ Len(last'.queries) = 1
            /\ last'.queries[1] = "labels.cloud_env:" \o e[2] \o " name:" \o p \o "*"
            /\ Contains(last'.message, last'.queries[1])]_vars

\* get_project has raised on an empty answer
C5_Witness ==
    /\ last.op = "get_project"
    /\ last.queries # <<>>
    /\ last.answer = <<>>
    /\ last.raised = no_projects_error
    /\ last.message = "No projects returned for filter labels.cloud_env:prod name:proj-a*"

\* C6: an answer of exactly one project is returned and stored in the
\* single-project cache under the prefix as passed, and a later
\* get_project with that prefix returns the same project.
C6_ResolvedUnderPrefix ==
    [][\A e \in EnvIds : \A p \in Prefixes :
        GetCall(e, p) =>
            /\ (last'.queries # <<>> /\ Len(last'.answer) = 1)
                  => /\ last'.raised = None
                     /\ last'.value = last'.answer[1]
                     /\ DOMAIN SingleCache(e)'
                           = DOMAIN SingleCache(e) \cup {p}
                     /\ SingleCache(e)'[p] = last'.answer[1]
            /\ (p \in asked[e] /\ prevGet[e][p].raised = None)
                  => /\ last'.raised = None
                     /\ last'.value = prevGet[e][p].value]_vars

\* a repeated get_project has returned the project stored under its prefix,
\* which is neither the project's name nor the filter
C6_Witness ==
    \E e \in DOMAIN gcp_envs :
        /\ DefaultCaches(e)
        /\ last.op = "get_project" /\ last.env = e /\ last.hit
        /\ DOMAIN SingleCache(e) = {last.prefix}
        /\ last.value = SingleCache(e)[last.prefix]
        /\ last.value.name # last.prefix

\* C7: once the all-projects cache of an environment is non-empty no call
\* changes it and no get_all_projects() sends a remote query.
C7_PopulatedOnce ==
    [][\A e \in DOMAIN gcp_envs :
        AllCache(e) # <<>> =>
            /\ AllCache(e)' = AllCache(e)
            /\ ListCall(e) => last'.queries = <<>> /\ last'.creds = 0]_vars

\* an environment filled its cache from an answer and has since served a
\* get_all_projects() and a get_project()
C7_Witness ==
    \E e \in DOMAIN gcp_envs :
        /\ DefaultCaches(e)
        /\ AllCache(e) # <<>>
        /\ listed[e] = 2
        /\ asked[e] # {}

\* the step is a completed call on environment e
AnyCall(e) == calls' = calls + 1 /\ last'.env = e

\* the cache that the call observed in last' belongs to is populated in
\* the state after the call
Populated(e) ==
    IF last'.op = "get_all_projects"
    THEN AllCache(e)' # <<>>
    ELSE last'.prefix \in DOMAIN SingleCache(e)'

\* C8 as stated, read on environments whose key file loads: every call
\* either is served from the cache without a remote query or sends exactly
\* one remote query and populates its cache.
C8_Original ==
    [][\A e \in EnvIds :
        (AnyCall(e) /\ CredentialsLoad(e)) =>
            \/ last'.hit /\ last'.queries = <<>>
            \/ ~last'.hit /\ Len(last'.queries) = 1 /\ Populated(e)]_vars

\* C8 amended: every call either is served from the cache without loading
\* credentials or sending a query and leaves the caches alone, or loads the
\* credentials once and sends at most one remote query, exactly one when
\* the credentials load; it populates its cache exactly when it returns,
\* that is when the answer has at least one project (get_all_projects) or
\* exactly one (get_project), and otherwise raises with the caches as before.
C8_HitOrOneQuery ==
    [][\A e \in EnvIds :
        AnyCall(e) =>
            \/ /\ last'.hit
               /\ last'.queries = <<>> /\ last'.creds = 0
               /\ last'.raised = None
               /\ gcp_envs' = gcp_envs /\ heap' = heap
            \/ /\ ~last'.hit
               /\ last'.creds = 1
               /\ Len(last'.queries) = (IF CredentialsLoad(e) THEN 1 ELSE 0)
               /\ IF /\ last'.queries # <<>>
                     /\ IF last'.op = "get_all_projects"
                        THEN Len(last'.answer) >= 1
                        ELSE Len(last'.answer) = 1
                  THEN last'.raised = None /\ Populated(e)
                  ELSE last'.raised # None /\ gcp_envs' = gcp_envs /\ heap' = heap]_vars

\* a call has sent its one query and raised without populating its cache
C8_Witness ==
    \E e \in DOMAIN gcp_envs :
        /\ calls = 1
        /\ last.env = e
        /\ ~last.hit /\ Len(last.queries) = 1
        /\ last.raised # None
        /\ AllCache(e) = <<>> /\ DOMAIN SingleCache(e) = {}

\* prefixes for which a get_project on environment e has returned
Resolved(e) ==
    {p \in Prefixes : prevGet[e][p].op = "get_project"
                         /\ prevGet[e][p].raised = None}

\* keys that the dict of the single-project cache of e had when the
\* configuration was loaded (none for the dict that __init__ makes)
ConstructedKeys(e) ==
    IF gcp_envs[e]._single_project_cache \in DOMAIN ConfigDicts
    THEN DOMAIN ConfigDicts[gcp_envs[e]._single_project_cache] ELSE {}

\* the environments whose single-project cache is the dict that e holds
SameDict(e) ==
    {f \in DOMAIN gcp_envs :
        gcp_envs[f]._single_project_cache = gcp_envs[e]._single_project_cache}

\* C9 as stated, read on environments built with empty caches: the keys of
\* the single-project cache are the prefixes get_project has been called
\* with.
C9_Original ==
    \A e \in DOMAIN gcp_envs :
        DefaultCaches(e) => DOMAIN SingleCache(e) = asked[e]

\* C9 amended: the keys of the single-project cache of an environment are
\* the keys its dict was constructed with (none by default) and the
\* prefixes for which a get_project on an environment holding that dict has
\* returned a project; for an environment constructed with default caches
\* they are exactly the prefixes for which its get_project has returned.  A
\* prefix whose get_project calls all raised has no entry.
C9_KeysAreResolvedPrefixes ==
    \A e \in DOMAIN gcp_envs :
        /\ DOMAIN SingleCache(e)
              = ConstructedKeys(e) \cup UNION {Resolved(f) : f \in SameDict(e)}
        /\ DefaultCaches(e) => DOMAIN SingleCache(e) = Resolved(e)
        /\ Resolved(e) \subseteq asked[e]
        /\ \A p \in Resolved(e) : SingleCache(e)[p] = prevGet[e][p].value

\* two prefixes have been asked, one resolved and one failed
C9_Witness ==
    \E e \in DOMAIN gcp_envs :
        /\ DefaultCaches(e)
        /\ asked[e] = Prefixes
        /\ Cardinality(DOMAIN SingleCache(e)) = 1

\* the step is a completed validate() of the resource
ValidateCall == resource.op # "none" /\ resource'.op = "validate"

\* C10: validate() returns nothing and leaves the resource as it was when
\* project is anything but None, the empty string included, and raises
\* KeyError (the configuration-error kind) when project is None, which is
\* also the value of a resource constructed without a project entry.
C10_ValidateProject ==
    [][/\ ValidateCall =>
            /\ resource.self.project # None
                  => /\ resource'.raised = None
                     /\ resource'.value = None
                     /\ resource'.self = resource.self
            /\ resource.self.project = None
                  => resource'.raised = "KeyError"
       /\ (resource'.op = "__init__"
             /\ "project" \notin DOMAIN resource'.entries)
            => resource'.self.project = None]_vars

\* a resource whose project is the empty string has been validated without
\* error
C10_Witness ==
    /\ resource.op = "validate"
    /\ resource.self.project = ""
    /\ resource.raised = None

\* C11: get_environments_from_config() completes without error for every
\* configuration, arbitrary override keys included, sends no query and
\* loads no credentials, and returns one environment per configuration key,
\* each named by its key (none for the empty configuration).
C11_BuildFromConfig ==
    [][builds' = builds + 1 =>
          /\ registry' = "built"
          /\ {e[2] : e \in DOMAIN gcp_envs' \ DOMAIN gcp_envs} = DOMAIN GCP_ENVS
          /\ \A e \in DOMAIN gcp_envs' \ DOMAIN gcp_envs :
                e[1] = builds' /\ gcp_envs'[e].name = e[2]
          /\ last' = last /\ calls' = calls]_vars

\* every caller of the race has completed its call
AllDone == \A t \in Callers : threads[t].pc = "done"

\* callers whose call was the operation op with prefix and returned
Returned(op, prefix) ==
    {t \in Callers : /\ threads[t].pc = "done"
                     /\ threads[t].op = op /\ threads[t].prefix = prefix
                     /\ threads[t].raised = None}

\* those of them that asked the remote service themselves
Fetched(op, prefix) == {t \in Returned(op, prefix) : threads[t].queries = 1}

\* what the cache holds for the operation op with prefix, None if nothing
CacheFor(op, prefix) ==
    IF op = "get_all_projects" THEN gcp_envs[RaceEnv]._all_projects_cache
    ELSE IF prefix \in DOMAIN SingleCache(RaceEnv)
         THEN SingleCache(RaceEnv)[prefix]
         ELSE None

\* the operations callers race on
RaceOps ==
    {<<"get_all_projects", None>>} \cup {<<"get_project", p>> : p \in Prefixes}

\* C12 as stated: each racing caller sends at most one remote query, and
\* when all have completed the cache holds the value that every successful
\* caller of the operation returned.
C12_Original ==
    /\ \A t \in Callers : threads[t].pc # "idle" => threads[t].queries <= 1
    /\ AllDone =>
          \A o \in RaceOps : \A t \in Returned(o[1], o[2]) :
              threads[t].value = CacheFor(o[1], o[2])

\* C12 amended: each racing caller sends at most one remote query; when
\* all have completed the cache holds the value returned by one of the
\* callers that asked the remote service (the one that stored last), every
\* successful caller returned the answer one of them received, and the
\* cache equals the value of every successful caller whenever the remote
\* service gave all of them the same answer.
C12_LastWriterWins ==
    /\ \A t \in Callers :
          threads[t].pc # "idle" =>
              threads[t].queries <= 1 /\ threads[t].creds <= 1
    /\ AllDone =>
          \A o \in RaceOps :
              LET returned == Returned(o[1], o[2])
                  fetched == Fetched(o[1], o[2])
                  answers == {threads[t].value : t \in fetched}
              IN /\ returned # {} =>
                        /\ fetched # {}
                        /\ CacheFor(o[1], o[2]) \in answers
                 /\ \A t \in returned : threads[t].value \in answers
                 /\ Cardinality(answers) <= 1 =>
                        \A t \in returned :
                            threads[t].value = CacheFor(o[1], o[2])

\* two callers of get_all_projects() both found the cache empty, both asked
\* the remote service, both stored, and the cache holds what each returned
C12_Witness ==
    /\ AllDone
    /\ Cardinality(Fetched("get_all_projects", None)) >= 2
    /\ \A t \in Fetched("get_all_projects", None) :
          threads[t].value = gcp_envs[RaceEnv]._all_projects_cache

\* the key file configured for environment e exists and parses
KeyFileReadable(e) == gcp_envs[e].service_account_path \in KeyFiles

\* C13: a call served from the cache loads no credentials; a call that asks
\* the remote service has loaded the credentials exactly once before its one
\* query; and when the credentials do not load the call raises what the
\* loader raised, sends no query and leaves both caches as they were.
C13_CredentialsPerRemoteCall ==
    [][\A e \in EnvIds :
        AnyCall(e) =>
            /\ last'.hit => last'.creds = 0
            /\ ~last'.hit => last'.creds = 1
            /\ last'.queries # <<>> =>
                  /\ last'.creds = 1 /\ Len(last'.queries) = 1
                  /\ KeyFileReadable(e)
            /\ (~last'.hit /\ ~KeyFileReadable(e)) =>
                  /\ last'.raised = "CredentialsFileError"
                  /\ last'.queries = <<>>
                  /\ gcp_envs' = gcp_envs /\ heap' = heap]_vars

\* a call on an environment whose key file is missing has raised the
\* loader's error without asking the remote service
C13_Witness ==
    /\ calls >= 2
    /\ last.raised = "CredentialsFileError"
    /\ last.creds = 1
    /\ last.queries = <<>>
    /\ ~KeyFileReadable(last.env)

\* C14: the filter of get_all_projects() on an environment named N is
\* exactly labels.cloud_env:N, and the filter of get_project(P) is exactly
\* labels.cloud_env:N name:P* for every N and P, the empty prefix included.
C14_FilterStrings ==
    /\ filtered.op = "get_all_projects"
          => filtered.value = "labels.cloud_env:" \o filtered.name
    /\ filtered.op = "get_project"
          => /\ filtered.value = "labels.cloud_env:" \o filtered.name
                    \o " name:" \o filtered.prefix \o "*"
             /\ Len(filtered.value)
                    = 24 + Len(filtered.name) + Len(filtered.prefix)

\* the filter of get_project("") on environment prod has been built
C14_Witness ==
    /\ filtered.op = "get_project"
    /\ filtered.name = "prod" /\ filtered.prefix = ""
    /\ filtered.value = "labels.cloud_env:prod name:*"

\* the most recent call was a get_project(p) on e that asked the remote
\* service and raised
JustFailed(e, p) ==
    /\ last.op = "get_project" /\ last.env = e /\ last.prefix = p
    /\ last.queries # <<>> /\ last.raised # None

\* C15: a get_project(P) whose answer has zero or more than one project
\* raises and leaves both caches as they were, with no entry for P, and the
\* call after such a failure, when it is a get_project(P) on the same
\* environment, asks the remote service again; on an environment built with
\* default caches so does the next get_project(P) after any other calls.
C15_FailureNotCached ==
    [][\A e \in EnvIds : \A p \in Prefixes :
        GetCall(e, p) =>
            /\ (last'.queries # <<>> /\ Len(last'.answer) # 1)
                  => /\ last'.raised = "GoogleInfrastructureError"
                     /\ last'.value = None
                     /\ gcp_envs' = gcp_envs /\ heap' = heap
                     /\ p \notin DOMAIN SingleCache(e)'
            /\ JustFailed(e, p)
                  => /\ ~last'.hit
                     /\ Len(last'.queries) = 1
            /\ (DefaultCaches(e) /\ p \in asked[e] /\ prevGet[e][p].queried
                   /\ prevGet[e][p].raised # None)
                  => /\ ~last'.hit
                     /\ Len(last'.queries) = 1]_vars

\* a get_project(P) has asked the remote service again after a get_project(P)
\* that failed on a two-project answer, and P still has no entry
C15_Witness ==
    \E e \in DOMAIN gcp_envs :
        /\ calls = 2
        /\ last.op = "get_project" /\ last.env = e
        /\ asked[e] = {last.prefix}
        /\ Len(last.queries) = 1
        /\ Len(last.answer) = 2
        /\ last.prefix \notin DOMAIN SingleCache(e)

\* the name of project starts with prefix
StartsWith(name, prefix) ==
    Len(name) >= Len(prefix) /\ SubSeq(name, 1, Len(prefix)) = prefix

\* C16: get_all_projects() leaves the single-project cache as it was;
\* get_project(P) leaves the all-projects cache and the entries of the other
\* prefixes as they were, and on a miss asks the remote service whatever the
\* all-projects cache holds, a project matching P included.
C16_IndependentCaches ==
    [][\A e \in EnvIds :
        /\ ListCall(e) =>
              SingleCache(e)' = SingleCache(e)
        /\ \A p \in Prefixes :
              GetCall(e, p) =>
                 /\ AllCache(e)' = AllCache(e)
                 /\ \A q \in Prefixes \ {p} :
                       /\ q \in DOMAIN SingleCache(e)'
                             <=> q \in DOMAIN SingleCache(e)
                       /\ q \in DOMAIN SingleCache(e) =>
                             SingleCache(e)'[q]
                                 = SingleCache(e)[q]
                 /\ (p \notin DOMAIN SingleCache(e) /\ KeyFileReadable(e))
                       => ~last'.hit /\ Len(last'.queries) = 1
                 /\ (p \notin DOMAIN SingleCache(e) /\ AllCache(e) # <<>>)
                       => ~last'.hit /\ Len(last'.queries) = 1]_vars

\* get_project(P) has asked the remote service although the all-projects
\* cache already held a project whose name starts with P, and the entry of
\* the other prefix and the all-projects cache are still there
C16_Witness ==
    \E e \in DOMAIN gcp_envs :
        /\ DefaultCaches(e)
        /\ calls = 3
        /\ last.op = "get_project" /\ last.env = e
        /\ Len(last.queries) = 1
        /\ \E i \in 1..Len(AllCache(e)) :
              StartsWith(AllCache(e)[i].name, last.prefix)
        /\ DOMAIN SingleCache(e) = Prefixes

\* C17: a call on one environment leaves both caches of every other
\* environment as they were, and a call served from the cache of an
\* environment returns what that environment was constructed with or what
\* an earlier call on that same environment returned.
C17_PerInstanceCaches ==
    [][\A e \in EnvIds :
        AnyCall(e) =>
            /\ \A f \in DOMAIN gcp_envs \ {e} :
                  /\ AllCache(f)' = AllCache(f)
                  /\ SingleCache(f)' = SingleCache(f)
            /\ last'.hit =>
                  IF last'.op = "get_all_projects"
                  THEN \/ "_all_projects_cache" \in DOMAIN GCP_ENVS[e[2]]
                       \/ /\ listed[e] >= 1
                          /\ prevList[e].raised = None
                          /\ last'.value = prevList[e].value
                  ELSE \/ last'.prefix \in ConstructedKeys(e)
                       \/ /\ last'.prefix \in asked[e]
                          /\ prevGet[e][last'.prefix].raised = None
                          /\ last'.value = prevGet[e][last'.prefix].value]_vars

\* what the caches of an environment built with default caches hold came
\* from calls on it that returned
CachesFromAnswers(e) ==
    /\ AllCache(e) # <<>> =>
          /\ listed[e] >= 1
          /\ prevList[e].raised = None
          /\ prevList[e].value = AllCache(e)
    /\ \A p \in DOMAIN SingleCache(e) :
          /\ p \in asked[e]
          /\ prevGet[e][p].raised = None
          /\ prevGet[e][p].value = SingleCache(e)[p]

\* a step changes the caches of e only by storing the whole non-empty answer
\* to the query with the label filter of e, or the one project of the answer
\* to the query for a prefix under that prefix
CachesChangeByAnswer(e) ==
    /\ AllCache(e)' # AllCache(e) =>
          /\ ListCall(e)
          /\ last'.queries = <<"labels.cloud_env:" \o e[2]>>
          /\ Len(last'.answer) >= 1
          /\ AllCache(e) = <<>>
          /\ AllCache(e)' = last'.answer
    /\ SingleCache(e)' # SingleCache(e) =>
          \E p \in Prefixes :
              /\ GetCall(e, p)
              /\ last'.queries
                    = <<"labels.cloud_env:" \o e[2] \o " name:" \o p \o "*">>
              /\ Len(last'.answer) = 1
              /\ p \notin DOMAIN SingleCache(e)
              /\ SingleCache(e)'
                    = (p :> last'.answer[1]) @@ SingleCache(e)

\* C18: the caches of an environment constructed with default caches start
\* empty and only ever take the complete non-empty answer to a query with
\* its label filter (all-projects cache) or the sole project of a
\* one-project answer to the query for P (entry P): never an empty answer,
\* one of several projects, or data not received from the remote service.
C18_CachesHoldAnswers ==
    /\ [](\A e \in DOMAIN gcp_envs : DefaultCaches(e) => CachesFromAnswers(e))
    /\ [][\A e \in DOMAIN gcp_envs' :
            DefaultCaches(e) =>
                IF e \in DOMAIN gcp_envs
                THEN CachesChangeByAnswer(e)
                ELSE /\ AllCache(e)' = <<>>
                     /\ SingleCache(e)' = EmptyDict]_vars

\* an environment built with default caches holds a two-project list and an
\* entry for a prefix
C18_Witness ==
    \E e \in DOMAIN gcp_envs :
        /\ DefaultCaches(e)
        /\ Len(AllCache(e)) = 2
        /\ DOMAIN SingleCache(e) # {}
        /\ CachesFromAnswers(e)

====
